---------------------------- MODULE Spec2Model ----------------------------
(***************************************************************************)
(* Model of server/OffloadUtils.cpp: the netlink transaction               *)
(* sendAndProcessNetlinkResponse and the three request builders            *)
(* doTcQdiscClsact, tcFilterAddDevBpf and tcFilterDelDev.                  *)
(*                                                                         *)
(* A request is the sequence of bytes of the C structure the builder       *)
(* fills in (little-endian host, as on every Android ABI).  A transaction  *)
(* is a sequence of system calls whose outcomes are chosen by the          *)
(* environment.                                                            *)
(***************************************************************************)
EXTENDS Integers, Sequences, FiniteSets, TLC

(***************************************************************************)
(* Bounds of the model.                                                    *)
(***************************************************************************)
\* interface indices 1..MaxIfIndex are passed to the builders
MaxIfIndex == 2
\* socket() fails with EMFILE once this many descriptors are held
MaxFds == 2

(***************************************************************************)
(* Integer helpers: fixed-width arithmetic and bit operations.             *)
(***************************************************************************)
\* TLC's integers are 32-bit signed.  A C int is a TLC integer; a __u32
\* is the pair <<high 16 bits, low 16 bits>>.
Pow2_8 == 256
Pow2_15 == 32768
Pow2_16 == 65536

RECURSIVE BitOr(_, _)
BitOr(a, b) ==
    IF a = 0 THEN b
    ELSE IF b = 0 THEN a
    ELSE (IF a % 2 = 1 \/ b % 2 = 1 THEN 1 ELSE 0) + 2 * BitOr(a \div 2, b \div 2)

RECURSIVE BitAnd(_, _)
BitAnd(a, b) ==
    IF a = 0 \/ b = 0 THEN 0
    ELSE (IF a % 2 = 1 /\ b % 2 = 1 THEN 1 ELSE 0) + 2 * BitAnd(a \div 2, b \div 2)

\* the two 16-bit halves of the two's complement representation of an int
HiOf(x) == (x \div Pow2_16) % Pow2_16
LoOf(x) == x % Pow2_16
\* the int with a given representation
IntOf(hi, lo) == (IF hi >= Pow2_15 THEN hi - Pow2_16 ELSE hi) * Pow2_16 + lo

\* conversion of an int to __u32: the same 32 bits
ToU32(x) == <<HiOf(x), LoOf(x)>>
\* a | b and a & b on __u32
Or32(a, b) == <<BitOr(a[1], b[1]), BitOr(a[2], b[2])>>
And32(a, b) == <<BitAnd(a[1], b[1]), BitAnd(a[2], b[2])>>
\* a << 16 on a __u32
Shl16U32(a) == <<a[2], 0>>
\* x << 16 on an int: the low 16 bits of x become the high half, sign bit included
Shl16Int32(x) == IntOf(LoOf(x), 0)
\* a | b on ints
OrInt32(a, b) == IntOf(BitOr(HiOf(a), HiOf(b)), BitOr(LoOf(a), LoOf(b)))

\* htons() on a little-endian host: the two bytes of a 16-bit value swapped
htons(x) == (x % Pow2_8) * Pow2_8 + (x \div Pow2_8)

(***************************************************************************)
(* Byte encodings of the scalar types (little-endian host).                *)
(***************************************************************************)
Zeros(n) == [i \in 1..n |-> 0]
U8(x) == <<x>>
U16(x) == <<x % Pow2_8, x \div Pow2_8>>
U32(w) == U16(w[2]) \o U16(w[1])
I32(x) == U32(ToU32(x))

\* readers of a byte sequence, offsets counted from 0
RdU16(b, off) == b[off + 1] + Pow2_8 * b[off + 2]
RdU32(b, off) == <<RdU16(b, off + 2), RdU16(b, off)>>
Slice(b, off, n) == [i \in 1..n |-> b[off + i]]

(***************************************************************************)
(* C structure layout: a member is [align, bytes]; members are placed at   *)
(* the next offset that is a multiple of their alignment, and the          *)
(* structure is padded to a multiple of its largest member alignment.      *)
(***************************************************************************)
PadTo(n, a) == (a - (n % a)) % a

RECURSIVE LayOut(_, _)
LayOut(ms, acc) ==
    IF ms = <<>> THEN acc
    ELSE LET m == Head(ms)
         IN  LayOut(Tail(ms), acc \o Zeros(PadTo(Len(acc), m.align)) \o m.bytes)

RECURSIVE MaxAlign(_)
MaxAlign(ms) ==
    IF ms = <<>> THEN 1
    ELSE LET r == MaxAlign(Tail(ms))
         IN  IF Head(ms).align > r THEN Head(ms).align ELSE r

Struct(ms) ==
    LET raw == LayOut(ms, <<>>)
        a == MaxAlign(ms)
    IN  [align |-> a, bytes |-> raw \o Zeros(PadTo(Len(raw), a))]

Sizeof(s) == Len(s.bytes)

Fld8(x) == [align |-> 1, bytes |-> U8(x)]
Fld16(x) == [align |-> 2, bytes |-> U16(x)]
Fld32(x) == [align |-> 4, bytes |-> U32(x)]
\* char str[n] = "s": the characters of s, the rest of the array zero
CharArray(n, s) ==
    [align |-> 1, bytes |-> [i \in 1..n |-> IF i <= Len(s) THEN s[i] ELSE 0]]

\* strncpy(dst, src, n) into an array dst of at least n bytes: the first n
\* characters of src, zero-filled up to n when src is shorter; no
\* terminating NUL is written when strlen(src) >= n.
strncpy(dst, src, n) ==
    [i \in 1..Len(dst) |->
        IF i > n THEN dst[i] ELSE IF i <= Len(src) THEN src[i] ELSE 0]

\* sizeof of a string array: the characters and the terminating NUL
SizeofStr(s) == Len(s) + 1

Max(a, b) == IF a > b THEN a ELSE b

(***************************************************************************)
(* Kernel ABI constants used by the file.                                  *)
(***************************************************************************)
NLMSG_ALIGNTO == 4
NLMSG_ALIGN(n) == ((n + NLMSG_ALIGNTO - 1) \div NLMSG_ALIGNTO) * NLMSG_ALIGNTO
NLA_ALIGN(n) == ((n + NLMSG_ALIGNTO - 1) \div NLMSG_ALIGNTO) * NLMSG_ALIGNTO
NLA_HDRLEN == 4
SIZEOF_NLMSGHDR == 16
SIZEOF_NLMSGERR == 20
SIZEOF_TCMSG == 20
RESP_BUF == 256
NLMSG_SPACE(n) == NLMSG_ALIGN(NLMSG_ALIGN(SIZEOF_NLMSGHDR) + n)

NLMSG_ERROR == 2
NLMSG_DONE == 3
RTM_NEWQDISC == 36
RTM_DELQDISC == 37
RTM_NEWTFILTER == 44
RTM_DELTFILTER == 45
NLM_F_REPLACE == 256
NLM_F_EXCL == 512
NLM_F_CREATE == 1024
\* NLM_F_REQUEST | NLM_F_ACK
NETLINK_REQUEST_FLAGS == 5
AF_UNSPEC == 0
TC_H_UNSPEC == <<0, 0>>
\* 0xFFFFFFF1
TC_H_CLSACT == <<65535, 65521>>
\* 0xFFF2
TC_H_MIN_INGRESS == <<0, 65522>>
\* 0xFFF3
TC_H_MIN_EGRESS == <<0, 65523>>
\* 0xFFFF0000 and 0x0000FFFF
TC_H_MAJ_MASK == <<65535, 0>>
TC_H_MIN_MASK == <<0, 65535>>
TC_H_MAKE(maj, min) == Or32(And32(maj, TC_H_MAJ_MASK), And32(min, TC_H_MIN_MASK))
TCA_KIND == 1
TCA_OPTIONS == 2
TCA_BPF_FD == 6
TCA_BPF_NAME == 7
TCA_BPF_FLAGS == 8
TCA_BPF_FLAG_ACT_DIRECT == 1
\* 0x0800
ETH_P_IP == 2048
\* 0x86DD
ETH_P_IPV6 == 34525
EMFILE == 24
EACCES == 13
ENOBUFS == 105
EBADMSG == 74
EMSGSIZE == 90
EEXIST == 17

(***************************************************************************)
(* The common parts of a request.                                          *)
(***************************************************************************)
nlmsghdr(len, type, flags) ==
    Struct(<<Fld32(ToU32(len)), Fld16(type), Fld16(flags), Fld32(ToU32(0)), Fld32(ToU32(0))>>)

tcmsg(family, ifindex, handle, parent, info) ==
    Struct(<<Fld8(family), Fld8(0), Fld16(0),
             [align |-> 4, bytes |-> I32(ifindex)],
             Fld32(handle), Fld32(parent), Fld32(info)>>)

nlattr(len, type) == Struct(<<Fld16(len), Fld16(type)>>)

(***************************************************************************)
(* doTcQdiscClsact: the request structure {nlmsghdr n; tcmsg t; kind}.     *)
(***************************************************************************)
\* "clsact"
CLSACT == <<99, 108, 115, 97, 99, 116>>
ASCIIZ_LEN_CLSACT == SizeofStr(CLSACT)

\* the three uses the file documents: <<nlMsgType, nlMsgFlags>>
QDISC_ADD == <<RTM_NEWQDISC, BitOr(NLM_F_EXCL, NLM_F_CREATE)>>
QDISC_REPLACE == <<RTM_NEWQDISC, BitOr(NLM_F_CREATE, NLM_F_REPLACE)>>
QDISC_DEL == <<RTM_DELQDISC, 0>>

\* a kind attribute whose length leaves out the terminating NUL
QdiscKind_NoNul ==
    Struct(<<nlattr(NLA_HDRLEN + Len(CLSACT), TCA_KIND),
             CharArray(NLMSG_ALIGN(ASCIIZ_LEN_CLSACT), CLSACT)>>)

\* .kind = {.attr = {.nla_len = NLA_HDRLEN + ASCIIZ_LEN_CLSACT, TCA_KIND}, .str = CLSACT}
QdiscKind ==
    Struct(<<nlattr(NLA_HDRLEN + ASCIIZ_LEN_CLSACT, TCA_KIND),
             CharArray(NLMSG_ALIGN(ASCIIZ_LEN_CLSACT), CLSACT)>>)

QdiscReq(len, ifIndex, nlMsgType, nlMsgFlags) ==
    Struct(<<nlmsghdr(len, nlMsgType, BitOr(NETLINK_REQUEST_FLAGS, nlMsgFlags) % Pow2_16),
             tcmsg(AF_UNSPEC, ifIndex, TC_H_MAKE(TC_H_CLSACT, ToU32(0)), TC_H_CLSACT, ToU32(0)),
             QdiscKind>>)

\* sizeof(req), the length handed to the transport
QdiscSizeof == Sizeof(QdiscReq(0, 0, 0, 0))

\* a builder that counts only the header and the fixed body
QdiscNlmsgLen_FixedBodyOnly == NLMSG_ALIGN(SIZEOF_NLMSGHDR) + SIZEOF_TCMSG

\* .nlmsg_len = sizeof(req)
QdiscNlmsgLen == QdiscSizeof

doTcQdiscClsact_req(ifIndex, nlMsgType, nlMsgFlags) ==
    QdiscReq(QdiscNlmsgLen, ifIndex, nlMsgType, nlMsgFlags).bytes

(***************************************************************************)
(* tcFilterAddDevBpf: {nlmsghdr n; tcmsg t; kind; options{fd, name, flags}}*)
(***************************************************************************)
FILTER_PRIO == 1
\* "bpf"
BPF == <<98, 112, 102>>
ASCIIZ_LEN_BPF == SizeofStr(BPF)
\* ":[*fsobj]"
FSOBJ_SUFFIX == <<58, 91, 42, 102, 115, 111, 98, 106, 93>>
\* "placeholder"
PLACEHOLDER == <<112, 108, 97, 99, 101, 104, 111, 108, 100, 101, 114>>
\* "prog_clatd_schedcls_ingress_clat_rawip"
CLAT_INGRESS_PROG_RAWIP_NAME ==
    <<112, 114, 111, 103, 95, 99, 108, 97, 116, 100, 95, 115, 99, 104, 101, 100,
      99, 108, 115, 95, 105, 110, 103, 114, 101, 115, 115, 95, 99, 108, 97, 116,
      95, 114, 97, 119, 105, 112>>
\* "prog_clatd_schedcls_ingress_clat_ether"
CLAT_INGRESS_PROG_ETHER_NAME ==
    <<112, 114, 111, 103, 95, 99, 108, 97, 116, 100, 95, 115, 99, 104, 101, 100,
      99, 108, 115, 95, 105, 110, 103, 114, 101, 115, 115, 95, 99, 108, 97, 116,
      95, 101, 116, 104, 101, 114>>
\* "prog_clatd_schedcls_egress_clat_rawip"
CLAT_EGRESS_PROG_RAWIP_NAME ==
    <<112, 114, 111, 103, 95, 99, 108, 97, 116, 100, 95, 115, 99, 104, 101, 100,
      99, 108, 115, 95, 101, 103, 114, 101, 115, 115, 95, 99, 108, 97, 116, 95,
      114, 97, 119, 105, 112>>
\* "prog_clatd_schedcls_egress_clat_ether"
CLAT_EGRESS_PROG_ETHER_NAME ==
    <<112, 114, 111, 103, 95, 99, 108, 97, 116, 100, 95, 115, 99, 104, 101, 100,
      99, 108, 115, 95, 101, 103, 114, 101, 115, 115, 95, 99, 108, 97, 116, 95,
      101, 116, 104, 101, 114>>

NAME_RX_RAWIP == CLAT_INGRESS_PROG_RAWIP_NAME \o FSOBJ_SUFFIX
NAME_RX_ETHER == CLAT_INGRESS_PROG_ETHER_NAME \o FSOBJ_SUFFIX
NAME_TX_RAWIP == CLAT_EGRESS_PROG_RAWIP_NAME \o FSOBJ_SUFFIX
NAME_TX_ETHER == CLAT_EGRESS_PROG_ETHER_NAME \o FSOBJ_SUFFIX

ASCIIZ_MAXLEN_NAME_RX == Max(SizeofStr(NAME_RX_RAWIP), SizeofStr(NAME_RX_ETHER))
ASCIIZ_MAXLEN_NAME_TX == Max(SizeofStr(NAME_TX_RAWIP), SizeofStr(NAME_TX_ETHER))
ASCIIZ_MAXLEN_NAME == Max(ASCIIZ_MAXLEN_NAME_RX, ASCIIZ_MAXLEN_NAME_TX)

\* a selection with the two link types exchanged
NAME_LinkTypeSwapped(ethernet, ingress) ==
    IF ingress THEN (IF ethernet THEN NAME_RX_RAWIP ELSE NAME_RX_ETHER)
               ELSE (IF ethernet THEN NAME_TX_RAWIP ELSE NAME_TX_ETHER)

\* NAME = ingress ? NAME_RX : NAME_TX, each ethernet ? .._ETHER : .._RAWIP
NAME(ethernet, ingress) ==
    IF ingress THEN (IF ethernet THEN NAME_RX_ETHER ELSE NAME_RX_RAWIP)
               ELSE (IF ethernet THEN NAME_TX_ETHER ELSE NAME_TX_RAWIP)

\* sizeof(req.options.name.str)
NameStrSizeof == NLMSG_ALIGN(ASCIIZ_MAXLEN_NAME)

\* the name field: initialised to "placeholder", then overwritten by
\* strncpy(req.options.name.str, NAME, sizeof(req.options.name.str))
NameStr(ethernet, ingress) ==
    strncpy(CharArray(NameStrSizeof, PLACEHOLDER).bytes, NAME(ethernet, ingress),
            NameStrSizeof)

FilterKindS(len) ==
    Struct(<<nlattr(len, TCA_KIND), CharArray(NLMSG_ALIGN(ASCIIZ_LEN_BPF), BPF)>>)
\* a kind attribute whose length leaves out the terminating NUL
FilterKind_NoNul == FilterKindS(NLA_HDRLEN + Len(BPF))
\* .nla_len = sizeof(req.kind)
FilterKind == FilterKindS(Sizeof(FilterKindS(0)))

OptFdS(len, bpfFd) == Struct(<<nlattr(len, TCA_BPF_FD), Fld32(ToU32(bpfFd))>>)
\* .nla_len = sizeof(req.options.fd)
OptFd(bpfFd) == OptFdS(Sizeof(OptFdS(0, 0)), bpfFd)

OptNameS(len, str) ==
    Struct(<<nlattr(len, TCA_BPF_NAME), [align |-> 1, bytes |-> str]>>)
\* .nla_len = sizeof(req.options.name)
OptName(str) == OptNameS(Sizeof(OptNameS(0, str)), str)

OptFlagsS(len) ==
    Struct(<<nlattr(len, TCA_BPF_FLAGS), Fld32(ToU32(TCA_BPF_FLAG_ACT_DIRECT))>>)
\* .nla_len = sizeof(req.options.flags)
OptFlags == OptFlagsS(Sizeof(OptFlagsS(0)))

OptionsS(len, bpfFd, str) ==
    Struct(<<nlattr(len, TCA_OPTIONS), OptFd(bpfFd), OptName(str), OptFlags>>)
\* .nla_len = sizeof(req.options)
Options(bpfFd, str) == OptionsS(Sizeof(OptionsS(0, 0, str)), bpfFd, str)

\* TC_H_MAKE(TC_H_CLSACT, ingress ? TC_H_MIN_INGRESS : TC_H_MIN_EGRESS)
FilterParent(ingress) ==
    TC_H_MAKE(TC_H_CLSACT, IF ingress THEN TC_H_MIN_INGRESS ELSE TC_H_MIN_EGRESS)

\* (prio << 16) | (__u32)(ipv6 ? htons(ETH_P_IPV6) : htons(ETH_P_IP)), prio a __u32
AddInfo(ipv6) ==
    Or32(Shl16U32(ToU32(FILTER_PRIO)),
         ToU32(IF ipv6 THEN htons(ETH_P_IPV6) ELSE htons(ETH_P_IP)))

AddReq(len, ifIndex, bpfFd, ethernet, ingress, ipv6) ==
    Struct(<<nlmsghdr(len, RTM_NEWTFILTER,
                      BitOr(NETLINK_REQUEST_FLAGS, BitOr(NLM_F_EXCL, NLM_F_CREATE))),
             tcmsg(AF_UNSPEC, ifIndex, TC_H_UNSPEC, FilterParent(ingress), AddInfo(ipv6)),
             FilterKind,
             Options(bpfFd, NameStr(ethernet, ingress))>>)

\* sizeof(req)
AddSizeof == Sizeof(AddReq(0, 0, 0, TRUE, TRUE, TRUE))

tcFilterAddDevBpf_req(ifIndex, bpfFd, ethernet, ingress, ipv6) ==
    AddReq(AddSizeof, ifIndex, bpfFd, ethernet, ingress, ipv6).bytes

(***************************************************************************)
(* tcFilterDelDev: {nlmsghdr n; tcmsg t}.                                  *)
(***************************************************************************)
\* an info field whose protocol is left in host byte order
DelInfo_HostOrder(prio, proto) == ToU32(OrInt32(Shl16Int32(prio), proto))

\* static_cast<__u32>((prio << 16) | htons(proto)): prio and htons(proto)
\* are promoted to int, the shift and the or are int operations
DelInfo(prio, proto) == ToU32(OrInt32(Shl16Int32(prio), htons(proto)))

DelReq(len, ifIndex, ingress, prio, proto) ==
    Struct(<<nlmsghdr(len, RTM_DELTFILTER, NETLINK_REQUEST_FLAGS),
             tcmsg(AF_UNSPEC, ifIndex, TC_H_UNSPEC, FilterParent(ingress),
                   DelInfo(prio, proto))>>)

\* sizeof(req)
DelSizeof == Sizeof(DelReq(0, 0, TRUE, 0, 0))

tcFilterDelDev_req(ifIndex, ingress, prio, proto) ==
    DelReq(DelSizeof, ifIndex, ingress, prio, proto).bytes

(***************************************************************************)
(* sendAndProcessNetlinkResponse: the state of one transaction.            *)
(***************************************************************************)
VARIABLES
    pc,          \* position: "idle", a system call, "validate", "ret" or "done"
    call,        \* the builder called and its arguments
    req,         \* the bytes of the request structure
    len,         \* the len argument of sendAndProcessNetlinkResponse
    fd,          \* the descriptor held by the unique_fd, -1 when none
    fds,         \* number of descriptors the transport holds open in the process
    rv,          \* the return value of the last system call
    resp,        \* the reply structure: the fields the validation looks at
    fieldsRead,  \* the fields of resp the validation has read
    result,      \* the value returned by the transaction
    steps        \* the system calls made by this transaction, with their outcome

vars == <<pc, call, req, len, fd, fds, rv, resp, fieldsRead, result, steps>>

\* inputs of the builders
IfIndexes == 1..MaxIfIndex
BpfFds == {3, 42}
QdiscModes == {QDISC_ADD, QDISC_REPLACE, QDISC_DEL}
\* priorities around the byte and sign-bit boundaries of the 16-bit shift
Prios == {0, 1, 255, 256, 32767, 32768, 65535}
Protos == {ETH_P_IP, ETH_P_IPV6, 255, 65535}

\* outcomes of the system calls
Errnos == {EACCES, ENOBUFS}
\* true sizes of the datagram the kernel queues as a reply; recv with
\* MSG_TRUNC returns the true size even when it exceeds sizeof(resp)
ReplySizes == {0, 20, 35, 36, 56, 292, 300}
ReplyTypes == {NLMSG_ERROR, NLMSG_DONE}
\* result codes a reply may embed; the transport does not restrict them
EmbeddedCodes == {0, -EEXIST, 1}

NoCall ==
    [fn |-> "none", ifIndex |-> 0, nlMsgType |-> 0, nlMsgFlags |-> 0, bpfFd |-> 0,
     ethernet |-> FALSE, ingress |-> FALSE, ipv6 |-> FALSE, prio |-> 0, proto |-> 0]
NoResp == [nlmsg_len |-> ToU32(0), nlmsg_type |-> 0, error |-> 0]

\* sizeof(resp): {nlmsghdr h; nlmsgerr e; char buf[256];}
SizeofResp == SIZEOF_NLMSGHDR + SIZEOF_NLMSGERR + RESP_BUF

\* resp = {} followed by recv(fd, &resp, sizeof(resp), MSG_TRUNC) of a
\* datagram of n bytes: a field is filled in only when the datagram (cut to
\* sizeof(resp)) covers it, and is zero otherwise
RecvInto(n, nlmsg_len, nlmsg_type, error) ==
    LET got == IF n > SizeofResp THEN SizeofResp ELSE n
    IN  [nlmsg_len |-> IF got >= 4 THEN ToU32(nlmsg_len) ELSE ToU32(0),
         nlmsg_type |-> IF got >= 6 THEN nlmsg_type ELSE 0,
         error |-> IF got >= SIZEOF_NLMSGHDR + 4 THEN error ELSE 0]

Step(name, ok) == [name |-> name, ok |-> ok]

\* a scope exit that leaves the descriptor open (a plain int descriptor)
unique_fd_dtor_NoClose(f, n) == n

\* ~unique_fd(): closes the descriptor it holds
unique_fd_dtor(f, n) == IF f # -1 THEN n - 1 ELSE n

\* what follows socket(): fd == -1 returns -errno
AfterSocket(f, err) ==
    IF f = -1 THEN [pc |-> "ret", result |-> -err]
    ELSE [pc |-> "setsockopt", result |-> 0]

\* what follows setsockopt(): a failure is logged and ignored
AfterSetsockopt(r) == [pc |-> "bind", result |-> 0]

\* a bind() whose failure is only logged
AfterBind_Ignored(r, err) == [pc |-> "connect", result |-> 0]

\* what follows bind(): rv != 0 returns -errno
AfterBind(r, err) ==
    IF r # 0 THEN [pc |-> "ret", result |-> -err]
    ELSE [pc |-> "connect", result |-> 0]

\* what follows connect(): rv != 0 returns -errno
AfterConnect(r, err) ==
    IF r # 0 THEN [pc |-> "ret", result |-> -err]
    ELSE [pc |-> "send", result |-> 0]

\* a send() that returns errno itself
AfterSend_PositiveErrno(r, err, l) ==
    IF r = -1 THEN [pc |-> "ret", result |-> err]
    ELSE IF r # l THEN [pc |-> "ret", result |-> -EMSGSIZE]
    ELSE [pc |-> "recv", result |-> 0]

\* what follows send(): -1 returns -errno, a short write returns -EMSGSIZE
AfterSend(r, err, l) ==
    IF r = -1 THEN [pc |-> "ret", result |-> -err]
    ELSE IF r # l THEN [pc |-> "ret", result |-> -EMSGSIZE]
    ELSE [pc |-> "recv", result |-> 0]

\* what follows recv(): -1 returns -errno
AfterRecv(r, err) ==
    IF r = -1 THEN [pc |-> "ret", result |-> -err]
    ELSE [pc |-> "validate", result |-> 0]

\* a validation whose size check only asks for a complete header
ProcessResponse_HeaderOnly(r, rsp) ==
    IF r < SIZEOF_NLMSGHDR
        THEN [result |-> -EMSGSIZE, read |-> {}]
    ELSE IF rsp.nlmsg_len # ToU32(r)
        THEN [result |-> -EBADMSG, read |-> {"nlmsg_len"}]
    ELSE IF rsp.nlmsg_type # NLMSG_ERROR
        THEN [result |-> -EBADMSG, read |-> {"nlmsg_len", "nlmsg_type"}]
    ELSE [result |-> rsp.error, read |-> {"nlmsg_len", "nlmsg_type", "error"}]

\* a validation that does not look at the message type
ProcessResponse_NoTypeCheck(r, rsp) ==
    IF r < NLMSG_SPACE(SIZEOF_NLMSGERR)
        THEN [result |-> -EMSGSIZE, read |-> {}]
    ELSE IF rsp.nlmsg_len # ToU32(r)
        THEN [result |-> -EBADMSG, read |-> {"nlmsg_len"}]
    ELSE [result |-> rsp.error, read |-> {"nlmsg_len", "error"}]

\* the checks on the reply and the result, in the order of the code
ProcessResponse(r, rsp) ==
    IF r < NLMSG_SPACE(SIZEOF_NLMSGERR)
        THEN [result |-> -EMSGSIZE, read |-> {}]
    ELSE IF rsp.nlmsg_len # ToU32(r)
        THEN [result |-> -EBADMSG, read |-> {"nlmsg_len"}]
    ELSE IF rsp.nlmsg_type # NLMSG_ERROR
        THEN [result |-> -EBADMSG, read |-> {"nlmsg_len", "nlmsg_type"}]
    ELSE [result |-> rsp.error, read |-> {"nlmsg_len", "nlmsg_type", "error"}]

(***************************************************************************)
(* The actions.                                                            *)
(***************************************************************************)
Init ==
    /\ pc = "idle"
    /\ call = NoCall
    /\ req = <<>>
    /\ len = 0
    /\ fd = -1
    /\ fds = 0
    /\ rv = 0
    /\ resp = NoResp
    /\ fieldsRead = {}
    /\ result = 0
    /\ steps = <<>>

\* entry of sendAndProcessNetlinkResponse(&req, sizeof(req))
Enter(c, r, l) ==
    /\ pc \in {"idle", "done"}
    /\ call' = c
    /\ req' = r
    /\ len' = l
    /\ pc' = "socket"
    /\ fd' = -1
    /\ rv' = 0
    /\ resp' = NoResp
    /\ fieldsRead' = {}
    /\ result' = 0
    /\ steps' = <<>>
    /\ UNCHANGED fds

Call_doTcQdiscClsact ==
    \E i \in IfIndexes, m \in QdiscModes :
        Enter([NoCall EXCEPT !.fn = "doTcQdiscClsact", !.ifIndex = i,
                             !.nlMsgType = m[1], !.nlMsgFlags = m[2]],
              doTcQdiscClsact_req(i, m[1], m[2]), QdiscSizeof)

Call_tcFilterAddDevBpf ==
    \E i \in IfIndexes, b \in BpfFds, eth \in BOOLEAN, ing \in BOOLEAN, v6 \in BOOLEAN :
        Enter([NoCall EXCEPT !.fn = "tcFilterAddDevBpf", !.ifIndex = i, !.bpfFd = b,
                             !.ethernet = eth, !.ingress = ing, !.ipv6 = v6],
              tcFilterAddDevBpf_req(i, b, eth, ing, v6), AddSizeof)

Call_tcFilterDelDev ==
    \E i \in IfIndexes, ing \in BOOLEAN, p \in Prios, pr \in Protos :
        Enter([NoCall EXCEPT !.fn = "tcFilterDelDev", !.ifIndex = i, !.ingress = ing,
                             !.prio = p, !.proto = pr],
              tcFilterDelDev_req(i, ing, p, pr), DelSizeof)

\* socket(AF_NETLINK, SOCK_RAW | SOCK_CLOEXEC, NETLINK_ROUTE): the lowest
\* free descriptor, or -1 with errno set (EMFILE when the table is full)
Socket ==
    /\ pc = "socket"
    /\ \E o \in {0} \cup Errnos :
        LET err == IF fds >= MaxFds THEN EMFILE ELSE o
            f == IF err = 0 THEN 3 + fds ELSE -1
        IN  /\ fd' = f
            /\ fds' = IF f # -1 THEN fds + 1 ELSE fds
            /\ rv' = f
            /\ steps' = Append(steps, Step("socket", f # -1))
            /\ pc' = AfterSocket(f, err).pc
            /\ result' = AfterSocket(f, err).result
    /\ UNCHANGED <<call, req, len, resp, fieldsRead>>

\* setsockopt(fd, SOL_NETLINK, NETLINK_CAP_ACK, &on, sizeof(on))
Setsockopt ==
    /\ pc = "setsockopt"
    /\ \E r \in {0, -1} :
        /\ rv' = r
        /\ steps' = Append(steps, Step("setsockopt", r = 0))
        /\ pc' = AfterSetsockopt(r).pc
        /\ result' = AfterSetsockopt(r).result
    /\ UNCHANGED <<call, req, len, fd, fds, resp, fieldsRead>>

\* bind(fd, &KERNEL_NLADDR, sizeof(KERNEL_NLADDR))
Bind ==
    /\ pc = "bind"
    /\ \E r \in {0, -1}, err \in Errnos :
        /\ rv' = r
        /\ steps' = Append(steps, Step("bind", r = 0))
        /\ pc' = AfterBind(r, err).pc
        /\ result' = AfterBind(r, err).result
    /\ UNCHANGED <<call, req, len, fd, fds, resp, fieldsRead>>

\* connect(fd, &KERNEL_NLADDR, sizeof(KERNEL_NLADDR))
Connect ==
    /\ pc = "connect"
    /\ \E r \in {0, -1}, err \in Errnos :
        /\ rv' = r
        /\ steps' = Append(steps, Step("connect", r = 0))
        /\ pc' = AfterConnect(r, err).pc
        /\ result' = AfterConnect(r, err).result
    /\ UNCHANGED <<call, req, len, fd, fds, resp, fieldsRead>>

\* send(fd, req, len, 0): an error, a short write or the whole buffer
Send ==
    /\ pc = "send"
    /\ \E r \in {-1, 0, len - 1, len}, err \in Errnos :
        /\ rv' = r
        /\ steps' = Append(steps, Step("send", r = len))
        /\ pc' = AfterSend(r, err, len).pc
        /\ result' = AfterSend(r, err, len).result
    /\ UNCHANGED <<call, req, len, fd, fds, resp, fieldsRead>>

\* recv(fd, &resp, sizeof(resp), MSG_TRUNC): an error, or a datagram of any
\* size and content
Recv ==
    /\ pc = "recv"
    /\ \/ \E err \in Errnos :
            /\ rv' = -1
            /\ resp' = NoResp
            /\ steps' = Append(steps, Step("recv", FALSE))
            /\ pc' = AfterRecv(-1, err).pc
            /\ result' = AfterRecv(-1, err).result
       \/ \E n \in ReplySizes, l \in ReplySizes, t \in ReplyTypes, e \in EmbeddedCodes :
            /\ l \in {n, NLMSG_SPACE(SIZEOF_NLMSGERR)}
            /\ rv' = n
            /\ resp' = RecvInto(n, l, t, e)
            /\ steps' = Append(steps, Step("recv", TRUE))
            /\ pc' = AfterRecv(n, 0).pc
            /\ result' = AfterRecv(n, 0).result
    /\ UNCHANGED <<call, req, len, fd, fds, fieldsRead>>

\* the checks on the reply and the decoding of the result
Validate ==
    /\ pc = "validate"
    /\ result' = ProcessResponse(rv, resp).result
    /\ fieldsRead' = ProcessResponse(rv, resp).read
    /\ steps' = Append(steps, Step("decode", TRUE))
    /\ pc' = "ret"
    /\ UNCHANGED <<call, req, len, fd, fds, rv, resp>>

\* every return statement, its value already computed: the scope of the
\* locals ends, the unique_fd is destroyed, rv and resp cease to exist
Return ==
    /\ pc = "ret"
    /\ fds' = unique_fd_dtor(fd, fds)
    /\ fd' = -1
    /\ rv' = 0
    /\ resp' = NoResp
    /\ fieldsRead' = {}
    /\ pc' = "done"
    /\ UNCHANGED <<call, req, len, result, steps>>

Next ==
    \/ Call_doTcQdiscClsact
    \/ Call_tcFilterAddDevBpf
    \/ Call_tcFilterDelDev
    \/ Socket
    \/ Setsockopt
    \/ Bind
    \/ Connect
    \/ Send
    \/ Recv
    \/ Validate
    \/ Return

Spec == Init /\ [][Next]_vars

(***************************************************************************)
(* The reader's view of a request: the attribute chain as the kernel walks *)
(* it (nla_ok / nla_next): an attribute is <<offset, nla_len, nla_type>>,  *)
(* the next one starts NLA_ALIGN(nla_len) bytes further.                   *)
(***************************************************************************)
RECURSIVE ParseAttrs(_, _, _)
ParseAttrs(b, off, end) ==
    IF end - off < NLA_HDRLEN THEN <<>>
    ELSE LET l == RdU16(b, off)
         IN  IF l < NLA_HDRLEN \/ l > end - off THEN <<>>
             ELSE <<[off |-> off, nla_len |-> l, nla_type |-> RdU16(b, off + 2)]>>
                  \o ParseAttrs(b, off + NLA_ALIGN(l), end)

Payload(b, a) == Slice(b, a.off + NLA_HDRLEN, a.nla_len - NLA_HDRLEN)
\* offsets of the fields of {nlmsghdr; tcmsg}
OFF_NLMSG_TYPE == 4
OFF_NLMSG_FLAGS == 6
OFF_TCM_PARENT == 28
OFF_TCM_INFO == 32
OFF_ATTRS == 36

BuiltBy(fn) == call.fn = fn
TopAttrs == ParseAttrs(req, OFF_ATTRS, Len(req))
\* the sub-attributes of the options attribute of a filter-attach request
SubAttrs ==
    LET o == TopAttrs[2]
    IN  ParseAttrs(req, o.off + NLA_HDRLEN, o.off + o.nla_len)
Types(attrs) == [i \in 1..Len(attrs) |-> attrs[i].nla_type]

Done == pc = "done"
\* at a return statement: the result is computed, the locals still exist
Returning == pc = "ret"
StepNames == <<"socket", "setsockopt", "bind", "connect", "send", "recv", "decode">>
\* recv succeeded and delivered fewer bytes than header plus error envelope
ShortReply == Len(steps) >= 6 /\ steps[6].ok /\ rv < NLMSG_SPACE(SIZEOF_NLMSGERR)
\* send succeeded but wrote fewer bytes than the request holds
ShortSend == Len(steps) = 5 /\ ~steps[5].ok /\ rv # -1
\* a reply of sufficient size with a wrong declared length or a wrong type
BadReply ==
    /\ Len(steps) >= 6 /\ steps[6].ok /\ rv >= NLMSG_SPACE(SIZEOF_NLMSGERR)
    /\ resp.nlmsg_len # ToU32(rv) \/ resp.nlmsg_type # NLMSG_ERROR
\* a reply that passes the three checks
GoodReply ==
    /\ Len(steps) >= 6 /\ steps[6].ok /\ rv >= NLMSG_SPACE(SIZEOF_NLMSGERR)
    /\ resp.nlmsg_len = ToU32(rv) /\ resp.nlmsg_type = NLMSG_ERROR

(***************************************************************************)
(* C1: the one descriptor a transaction opens is closed by the time it     *)
(* returns, on every path; a failed socket() leaves no descriptor; between *)
(* transactions the transport holds no descriptor.                         *)
(***************************************************************************)
C1_DescriptorReleased ==
    /\ pc \in {"idle", "done"} => fds = 0 /\ fd = -1
    /\ steps # <<>> /\ ~steps[1].ok => fds = 0 /\ fd = -1
    /\ steps # <<>> /\ steps[1].ok /\ pc # "done" => fds = 1 /\ fd # -1

C1_Witness ==
    /\ Done /\ steps[1].ok /\ fds = 0
    /\ Len(steps) = 7 /\ result = -EBADMSG

(***************************************************************************)
(* C2: the steps of a transaction are a prefix of socket, setsockopt,      *)
(* bind, connect, send, recv, decode, each at most once; a failed socket,  *)
(* bind, connect, send (error or short write) or recv is the last step.    *)
(***************************************************************************)
C2_StepOrder ==
    /\ Len(steps) <= Len(StepNames)
    /\ \A i \in 1..Len(steps) :
        /\ steps[i].name = StepNames[i]
        /\ ~steps[i].ok /\ steps[i].name # "setsockopt" => i = Len(steps)
    /\ Done /\ Len(steps) < Len(StepNames) => ~steps[Len(steps)].ok

C2_Witness ==
    /\ Done /\ Len(steps) = Len(StepNames)
    /\ ~steps[2].ok

(***************************************************************************)
(* C3 as stated: a short reply yields the malformed-response code, the     *)
(* code of a length-mismatched or wrong-type reply (-EBADMSG), which       *)
(* differs from the code of a short send (-EMSGSIZE); no field is read.    *)
(***************************************************************************)
C3_Original ==
    Returning /\ ShortReply =>
        /\ result = -EBADMSG
        /\ result # -EMSGSIZE
        /\ fieldsRead = {}

(***************************************************************************)
(* C3 amended: a short reply yields -EMSGSIZE, the code a short send       *)
(* yields, and not the -EBADMSG of a length-mismatched or wrong-type       *)
(* reply; no field of the reply is read.                                   *)
(***************************************************************************)
C3_ShortReply ==
    /\ Returning /\ ShortReply =>
        /\ result = -EMSGSIZE
        /\ result # -EBADMSG
        /\ fieldsRead = {}
    /\ Returning /\ ShortSend => result = -EMSGSIZE
    /\ Returning /\ BadReply => result = -EBADMSG

C3_Witness ==
    /\ Returning /\ ShortReply /\ rv = 35
    /\ Len(steps) = Len(StepNames) /\ result = -EMSGSIZE

(***************************************************************************)
(* C4: a reply of at least header plus error envelope whose declared       *)
(* length differs from the byte count recv reported, or whose type is not  *)
(* NLMSG_ERROR, yields -EBADMSG and the embedded code is not read.         *)
(***************************************************************************)
C4_MalformedReply ==
    Returning /\ BadReply =>
        /\ result = -EBADMSG
        /\ "error" \notin fieldsRead

C4_Witness ==
    /\ Returning /\ BadReply
    /\ rv > SizeofResp
    /\ resp.nlmsg_len # ToU32(rv)
    /\ resp.error = -EEXIST

(***************************************************************************)
(* C5 as stated: the result of every transaction is 0 or negative.         *)
(***************************************************************************)
C5_Original == Done => result <= 0

(***************************************************************************)
(* C5 amended: a transaction that ends before a reply passes validation    *)
(* returns a negative code; a reply that passes validation yields its      *)
(* embedded code unchanged, whatever its sign.                             *)
(***************************************************************************)
C5_Result ==
    /\ Returning => IF GoodReply THEN result = resp.error ELSE result < 0
    /\ Done /\ Len(steps) < Len(StepNames) => result < 0

C5_Witness == Returning /\ GoodReply /\ resp.error = -EEXIST /\ result = -EEXIST

(***************************************************************************)
(* C6 as stated: a Delete request has the delete message type and no kind  *)
(* attribute; Add and Replace carry the "clsact" kind attribute.           *)
(***************************************************************************)
C6_Original ==
    BuiltBy("doTcQdiscClsact") =>
        IF call.nlMsgType = RTM_DELQDISC
        THEN /\ RdU16(req, OFF_NLMSG_TYPE) = RTM_DELQDISC
             /\ \A i \in 1..Len(TopAttrs) : TopAttrs[i].nla_type # TCA_KIND
        ELSE /\ Types(TopAttrs) = <<TCA_KIND>>
             /\ Payload(req, TopAttrs[1]) = CLSACT \o <<0>>

(***************************************************************************)
(* C6 amended: a Delete request has the delete message type and only the   *)
(* request/ack flags, and carries the same single "clsact" kind attribute  *)
(* as Add and Replace requests, for every interface index.                 *)
(***************************************************************************)
C6_QdiscKind ==
    BuiltBy("doTcQdiscClsact") =>
        /\ RdU16(req, OFF_NLMSG_TYPE) = call.nlMsgType
        /\ call.nlMsgType = RTM_DELQDISC =>
                RdU16(req, OFF_NLMSG_FLAGS) = NETLINK_REQUEST_FLAGS
        /\ Types(TopAttrs) = <<TCA_KIND>>
        /\ Payload(req, TopAttrs[1]) = CLSACT \o <<0>>

C6_Witness ==
    /\ BuiltBy("doTcQdiscClsact") /\ call.nlMsgType = RTM_DELQDISC
    /\ RdU16(req, OFF_NLMSG_TYPE) = RTM_DELQDISC
    /\ Len(TopAttrs) = 1 /\ TopAttrs[1].nla_type = TCA_KIND

(***************************************************************************)
(* C7: for each builder the header's length field equals the number of     *)
(* bytes of the request, and that number is the count handed to send.      *)
(***************************************************************************)
C7_LengthExact ==
    ~BuiltBy("none") =>
        /\ RdU32(req, 0) = ToU32(Len(req))
        /\ len = Len(req)
        /\ Len(steps) >= 5 /\ steps[5].ok => rv = Len(req) \/ Len(steps) > 5

C7_Witness ==
    /\ BuiltBy("tcFilterAddDevBpf")
    /\ pc = "recv" /\ rv = Len(req)
    /\ Len(req) > OFF_ATTRS

(***************************************************************************)
(* The sizes of the payloads of the attributes of a filter-attach request. *)
(***************************************************************************)
\* type of each sub-attribute, in the order of the structure
SubTypes == <<TCA_BPF_FD, TCA_BPF_NAME, TCA_BPF_FLAGS>>
\* the name the call selects, with its terminating NUL
CallName == NAME(call.ethernet, call.ingress) \o <<0>>
\* sum of the padded sizes of a chain of attributes
RECURSIVE PaddedSum(_)
PaddedSum(attrs) ==
    IF attrs = <<>> THEN 0
    ELSE NLA_ALIGN(Head(attrs).nla_len) + PaddedSum(Tail(attrs))

AttachShape ==
    /\ Types(TopAttrs) = <<TCA_KIND, TCA_OPTIONS>>
    /\ Types(SubAttrs) = SubTypes
    /\ \A i \in 1..Len(TopAttrs) : TopAttrs[i].off % NLMSG_ALIGNTO = 0
    /\ \A i \in 1..Len(SubAttrs) : SubAttrs[i].off % NLMSG_ALIGNTO = 0

(***************************************************************************)
(* C8 as stated: in a filter-attach request every attribute length is the  *)
(* attribute's header size plus its payload size without trailing padding  *)
(* (kind: "bpf" and NUL; descriptor and flags: 4 bytes; name: the selected *)
(* name and NUL); the options length counts the padded size of each child. *)
(***************************************************************************)
C8_Original ==
    BuiltBy("tcFilterAddDevBpf") =>
        /\ AttachShape
        /\ TopAttrs[1].nla_len = NLA_HDRLEN + SizeofStr(BPF)
        /\ SubAttrs[1].nla_len = NLA_HDRLEN + 4
        /\ SubAttrs[2].nla_len = NLA_HDRLEN + Len(CallName)
        /\ SubAttrs[3].nla_len = NLA_HDRLEN + 4
        /\ TopAttrs[2].nla_len = NLA_HDRLEN + PaddedSum(SubAttrs)

(***************************************************************************)
(* C8 amended: kind, descriptor and flags lengths are header plus payload  *)
(* (8 each, no padding exists); the name length is header plus the size of *)
(* the name field, 52 for all four variants, which is header plus name     *)
(* and NUL for the ingress names and one byte more (the byte that rounds   *)
(* the name up to a multiple of 4) for the egress names; the options       *)
(* length counts the padded size of each child; the kind length of a qdisc *)
(* request is header plus "clsact" and NUL and excludes its padding byte.  *)
(***************************************************************************)
C8_AttrLengths ==
    /\ BuiltBy("tcFilterAddDevBpf") =>
        /\ AttachShape
        /\ TopAttrs[1].nla_len = NLA_HDRLEN + SizeofStr(BPF)
        /\ SubAttrs[1].nla_len = NLA_HDRLEN + 4
        /\ SubAttrs[2].nla_len = 52
        /\ SubAttrs[2].nla_len = NLA_ALIGN(NLA_HDRLEN + Len(CallName))
        /\ SubAttrs[2].nla_len =
                NLA_HDRLEN + Len(CallName) + (IF call.ingress THEN 0 ELSE 1)
        /\ SubAttrs[3].nla_len = NLA_HDRLEN + 4
        /\ TopAttrs[2].nla_len = NLA_HDRLEN + PaddedSum(SubAttrs)
        /\ TopAttrs[2].off + TopAttrs[2].nla_len = Len(req)
    /\ BuiltBy("doTcQdiscClsact") =>
        /\ Len(TopAttrs) = 1
        /\ TopAttrs[1].nla_len = NLA_HDRLEN + SizeofStr(CLSACT)
        /\ TopAttrs[1].off + TopAttrs[1].nla_len + 1 = Len(req)

C8_Witness ==
    /\ BuiltBy("tcFilterAddDevBpf") /\ ~call.ingress /\ call.ethernet
    /\ SubAttrs[2].nla_type = TCA_BPF_NAME
    /\ SubAttrs[2].nla_len = NLA_HDRLEN + Len(CallName) + 1

(***************************************************************************)
(* The four program names, spelled out from their parts.                   *)
(***************************************************************************)
\* "prog_clatd_schedcls_"
LitProg ==
    <<112, 114, 111, 103, 95, 99, 108, 97, 116, 100, 95, 115, 99, 104, 101, 100,
      99, 108, 115, 95>>
\* "ingress" and "egress"
LitIngress == <<105, 110, 103, 114, 101, 115, 115>>
LitEgress == <<101, 103, 114, 101, 115, 115>>
\* "_clat_"
LitClat == <<95, 99, 108, 97, 116, 95>>
\* "ether" and "rawip"
LitEther == <<101, 116, 104, 101, 114>>
LitRawip == <<114, 97, 119, 105, 112>>
\* ":[*fsobj]"
LitSuffix == <<58, 91, 42, 102, 115, 111, 98, 106, 93>>

ExpectedName(ingress, ethernet) ==
    LitProg \o (IF ingress THEN LitIngress ELSE LitEgress) \o LitClat
            \o (IF ethernet THEN LitEther ELSE LitRawip) \o LitSuffix

\* the bytes of the name field of the request
NameField == Payload(req, SubAttrs[2])

(***************************************************************************)
(* C9: the name field of a filter-attach request holds the name selected   *)
(* by (ingress, ethernet) alone: the ingress/egress ether/rawip program    *)
(* name followed by ":[*fsobj]", whole, NUL-terminated, the rest of the    *)
(* field zero, so that nothing of "placeholder" is left; the four names    *)
(* are pairwise distinct.                                                  *)
(***************************************************************************)
C9_NameSelected ==
    /\ BuiltBy("tcFilterAddDevBpf") =>
        LET want == ExpectedName(call.ingress, call.ethernet)
        IN  /\ SubAttrs[2].nla_type = TCA_BPF_NAME
            /\ Len(NameField) > Len(want)
            /\ \A i \in 1..Len(NameField) :
                    NameField[i] = IF i <= Len(want) THEN want[i] ELSE 0
    /\ \A i1 \in BOOLEAN, e1 \in BOOLEAN, i2 \in BOOLEAN, e2 \in BOOLEAN :
            ExpectedName(i1, e1) = ExpectedName(i2, e2) => i1 = i2 /\ e1 = e2

C9_Witness ==
    /\ BuiltBy("tcFilterAddDevBpf") /\ call.ingress /\ ~call.ethernet /\ call.ipv6
    /\ Slice(NameField, 0, 47) = ExpectedName(TRUE, FALSE)
    /\ NameField[48] = 0

(***************************************************************************)
(* C10: in a filter-detach request the upper 16 bits of the info field are *)
(* the priority and its lower 16 bits the protocol in network byte order,  *)
(* for every priority and protocol, and the request has no attributes; in  *)
(* a filter-attach request the info field holds priority 1 and the IPv6 or *)
(* IPv4 ethertype in network byte order; in both the parent is the clsact  *)
(* ingress handle (0xFFFFFFF2) or egress handle (0xFFFFFFF3).              *)
(***************************************************************************)
C10_InfoAndParent ==
    /\ BuiltBy("tcFilterDelDev") =>
        /\ RdU16(req, OFF_TCM_INFO + 2) = call.prio
        /\ req[OFF_TCM_INFO + 1] = call.proto \div 256
        /\ req[OFF_TCM_INFO + 2] = call.proto % 256
        /\ Len(req) = OFF_ATTRS
        /\ TopAttrs = <<>>
    /\ BuiltBy("tcFilterAddDevBpf") =>
        /\ RdU16(req, OFF_TCM_INFO + 2) = 1
        /\ req[OFF_TCM_INFO + 1] = (IF call.ipv6 THEN 134 ELSE 8)
        /\ req[OFF_TCM_INFO + 2] = (IF call.ipv6 THEN 221 ELSE 0)
    /\ BuiltBy("tcFilterDelDev") \/ BuiltBy("tcFilterAddDevBpf") =>
        RdU32(req, OFF_TCM_PARENT) = <<65535, IF call.ingress THEN 65522 ELSE 65523>>

C10_Witness ==
    /\ BuiltBy("tcFilterDelDev") /\ ~call.ingress
    /\ call.prio = 65535 /\ call.proto = ETH_P_IP
    /\ RdU32(req, OFF_TCM_INFO) = <<65535, 8>>

=============================================================================
